---- MODULE Spec2Model ----
(***************************************************************************)
(* enex2md: batch conversion of ENEX archives.                             *)
(*   enex2all.py        main / process_enex / process_single_note          *)
(*   src/parser.py      NoteParser                                         *)
(*   src/converter.py   NoteConverter (resources, OCR, intermediate HTML)  *)
(*   src/formatter_pdf.py  PdfFormatter (primary artifact, _PDF copy)      *)
(* Strings are sequences of characters (one-element strings); a multi-     *)
(* letter element such as "png" stands for a run of letters without dots.  *)
(***************************************************************************)
EXTENDS Integers, Sequences, FiniteSets, TLC

VARIABLES
    \* ---- inputs of one invocation of main() ----
    batch,            \* enex_files: sequence of archives [rel, stem, notes, malformed]
    formats,          \* config['output']['formats']
    retry_file,       \* contents of args.retry_run (NoRetry when the option is absent)
    ocr_enabled,      \* config['ocr']['enabled']
    runs,             \* how many times main() is invoked on this input
    \* ---- control ----
    run,              \* which invocation of main() is executing
    ai,               \* index of the archive being processed (main's for loop)
    ni,               \* number of notes the parser has yielded so far
    pc,               \* position inside process_enex / process_single_note
    \* ---- process_enex locals ----
    count, skipped, errors,
    failed_notes_log,
    retry_entries,
    \* ---- per-note execution ----
    target_dir,       \* directory chosen by convert_note
    alarm,            \* ticks left on the pending SIGALRM timer (0: no timer)
    sig,              \* SIGALRM delivered, handler about to raise TimeoutException
    elapsed,          \* ticks since start_time
    renderCalls,      \* formatters called for the current note
    intermediate_html, \* what _create_intermediate_html returned for the current note
    \* ---- _process_resources_parallel ----
    resources,        \* the note's resource list
    ri,               \* next resource of the first pass
    seen_filenames,
    res_map,
    ocr_tasks,
    futures,          \* one record per submitted OCR task
    files,            \* contents of <target_dir>/note_contents
    assigned,         \* filename assigned to each resource (log of the first pass)
    ocrCalls,         \* tasks for which pytesseract.image_to_data was invoked
    \* ---- persistent state ----
    fsDirs,           \* note directories below the output root
    fsPdfs,           \* files below the _PDF folders
    journal,          \* the failure journal file: [exists, entries]
    \* ---- observed output ----
    report,           \* the "Finished ..." log lines
    lastOutcome,      \* how the latest note left the pipeline
    faults,           \* environment faults so far (timer expiry, renderer or journal I/O error)
    \* ---- reading one archive file ----
    doc,              \* the markup inside the archive's root element, as tokens
    scan,             \* count_notes_in_enex, then NoteParser.parse, over doc
    \* ---- two processes at "Write Fail Log" on one output root ----
    writers           \* per writer: position, existing_failures as read, failed_notes_log

inputVars == <<batch, formats, retry_file, ocr_enabled, runs>>
ctlVars == <<run, ai, ni, pc>>
arcVars == <<count, skipped, errors, failed_notes_log, retry_entries>>
noteVars == <<target_dir, alarm, sig, elapsed, renderCalls, intermediate_html>>
resVars == <<resources, ri, seen_filenames, res_map, ocr_tasks, futures, files,
               assigned, ocrCalls>>
diskVars == <<fsDirs, fsPdfs, journal>>
outVars == <<report, lastOutcome, faults>>
scanVars == <<doc, scan>>
vars == <<inputVars, ctlVars, arcVars, noteVars, resVars, diskVars, outVars, scanVars,
          writers>>

None == "None"

(***************************************************************************)
(* String helpers                                                          *)
(***************************************************************************)
Digits == <<"0", "1", "2", "3", "4", "5", "6", "7", "8", "9">>

\* str(n) for a natural number
RECURSIVE Dec(_)
Dec(n) == IF n < 10 THEN <<Digits[n + 1]>> ELSE Dec(n \div 10) \o <<Digits[(n % 10) + 1]>>

StartsWith(s, p) == Len(p) <= Len(s) /\ SubSeq(s, 1, Len(p)) = p
EndsWith(s, p)   == Len(p) <= Len(s) /\ SubSeq(s, Len(s) - Len(p) + 1, Len(s)) = p

Lower(c) == CASE c = "SVG" -> "svg" [] c = "PNG" -> "png" [] c = "A" -> "a" [] OTHER -> c
LowerStr(s) == [i \in 1..Len(s) |-> Lower(s[i])]

\* str.strip(): drop leading and trailing blanks
RECURSIVE LStrip(_)
LStrip(s) == IF s # <<>> /\ Head(s) = " " THEN LStrip(Tail(s)) ELSE s
RECURSIVE RStrip(_)
RStrip(s) == IF s # <<>> /\ s[Len(s)] = " " THEN RStrip(SubSeq(s, 1, Len(s) - 1)) ELSE s
Strip(s) == RStrip(LStrip(s))

IllegalChars == {"<", ">", ":", "\"", "/", "\\", "|", "?", "*"}
SanitizeChar == "_"
SanitizeCap == 100

\* re.sub(r'[<>:"/\\|?*]', sanitize_char, name).strip()
Substitute(name) ==
    Strip([i \in 1..Len(name) |-> IF name[i] \in IllegalChars THEN SanitizeChar ELSE name[i]])

\* NoteConverter._sanitize_filename
Sanitize(name) ==
    LET s == Substitute(name)
    IN  IF Len(s) > SanitizeCap THEN Strip(SubSeq(s, 1, SanitizeCap)) ELSE s

\* PdfFormatter._sanitize_filename (no length cap)
PdfSanitize(name) == Substitute(name)

\* os.path.splitext: the extension starts at the last dot, unless only dots
\* precede it
LastDot(s) == IF \E i \in 1..Len(s) : s[i] = "."
              THEN CHOOSE i \in 1..Len(s) : s[i] = "." /\ \A j \in (i + 1)..Len(s) : s[j] # "."
              ELSE 0
Splitext(s) ==
    LET d == LastDot(s)
    IN  IF d > 0 /\ \E j \in 1..(d - 1) : s[j] # "."
        THEN <<SubSeq(s, 1, d - 1), SubSeq(s, d, Len(s))>>
        ELSE <<s, <<>>>>

(***************************************************************************)
(* Resources: src/converter.py, NoteConverter._process_resources_parallel  *)
(* and NoteConverter._perform_ocr                                          *)
(***************************************************************************)
NoName == <<>>          \* res.get('filename') is None or ''

\* base64.b64decode: the payloads that decode, and their bytes
Decodable == {"b64:big", "b64:tiny", "b64:flat", "b64:doc", "b64:svg", "b64:photo"}
B64Decode(p) == CASE p = "b64:big"  -> "big"
                  [] p = "b64:tiny" -> "tiny"
                  [] p = "b64:flat" -> "flat"
                  [] p = "b64:doc"  -> "doc"
                  [] p = "b64:svg"  -> "svg"
                  [] p = "b64:photo" -> "photo"

\* hashlib.md5(data).hexdigest()
Md5(data) == CASE data = "big"  -> "h1"
               [] data = "tiny" -> "h2"
               [] data = "flat" -> "h3"
               [] data = "doc"  -> "h4"
               [] data = "svg"  -> "h5"
               [] data = "photo" -> "h6"

\* mimetypes.guess_extension(mime) or '.bin'
GuessExtension(mime) == CASE mime = "image/png"       -> <<".", "png">>
                          [] mime = "application/pdf" -> <<".", "pdf">>
                          [] mime = "image/svg+xml"   -> <<".", "svg">>
                          [] OTHER                    -> <<".", "bin">>

\* mime.startswith('image/')
IsImageMime(mime) == mime \in {"image/png", "image/svg+xml"}

\* PIL.Image.open succeeds, and the size it reports
IsRaster(data)    == data \in {"big", "tiny", "flat", "photo"}
ImageWidth(data)  == CASE data = "big" -> 100 [] data = "tiny" -> 30 [] data = "flat" -> 100
                       [] data = "photo" -> 200
ImageHeight(data) == CASE data = "big" -> 100 [] data = "tiny" -> 30 [] data = "flat" -> 30
                       [] data = "photo" -> 200
MinDim == 50

\* _perform_ocr: "Skip OCR for very small images"
TooSmall(data) == ImageWidth(data) < MinDim \/ ImageHeight(data) < MinDim

\* the recognition XML and the position data built from pytesseract's words
OcrText(data) == CASE data = "big" -> "ocr:big" [] data = "flat" -> "ocr:flat"
                   [] data = "tiny" -> "ocr:tiny" [] data = "photo" -> "ocr:photo"
OcrPos(data)  == CASE data = "big" -> "pos:big" [] data = "flat" -> "pos:flat"
                   [] data = "tiny" -> "pos:tiny" [] data = "photo" -> "pos:photo"

\* truthiness of res.get('recognition')
HasReco(r) == r # None /\ r # ""

\* a faulty collision handling that tries "_1" and stops there
UniquifyOnce(name_part, ext_part, filename, counter, seen) ==
    IF filename \notin seen
    THEN filename
    ELSE name_part \o <<"_">> \o Dec(counter) \o ext_part

\* the while loop of "Handle filename collision"
RECURSIVE Uniquify(_, _, _, _, _)
Uniquify(name_part, ext_part, filename, counter, seen) ==
    IF filename \notin seen
    THEN filename
    ELSE Uniquify(name_part, ext_part, name_part \o <<"_">> \o Dec(counter) \o ext_part,
                  counter + 1, seen)

\* "Determine filename" up to the sanitized name
BaseFilename(res, md5_hash) ==
    Sanitize(IF res.filename = NoName
             THEN <<md5_hash>> \o GuessExtension(res.mime)
             ELSE res.filename)

AssignFilename(res, md5_hash, seen) ==
    LET filename == BaseFilename(res, md5_hash)
        parts    == Splitext(filename)
    IN  Uniquify(parts[1], parts[2], filename, 1, seen)

\* "Queue for OCR if needed"
QueuesOcr(recognition, enabled, is_image) == ~HasReco(recognition) /\ enabled /\ is_image

\* file_path.with_suffix(file_path.suffix + ext)
Sidecar(filename, ext) == filename \o ext

WriteFile(fs, name, content) ==
    [n \in DOMAIN fs \cup {name} |-> IF n = name THEN content ELSE fs[n]]

MapPut(m, k, v) == [x \in DOMAIN m \cup {k} |-> IF x = k THEN v ELSE m[x]]

NoAssign == <<"-">>      \* the resource was skipped or dropped

\* a faulty first pass that takes every name for a file it can create
UnwritableNever(filename) == FALSE

\* open(target_dir / filename, 'wb') raises: the name is the directory
\* itself or its parent
Unwritable(filename) == filename \in {<<".">>, <<".", ".">>}

\* one iteration of the first pass (the body of "for res in resources")
ProcessResource ==
    /\ pc = "resources"
    /\ ~sig
    /\ ri <= Len(resources)
    /\ LET res == resources[ri] IN
       IF res.data_b64 = ""
       THEN \* if not res.get('data_b64'): continue
            /\ assigned' = Append(assigned, NoAssign)
            /\ UNCHANGED <<seen_filenames, res_map, ocr_tasks, files>>
       ELSE IF res.data_b64 \notin Decodable
       THEN \* b64decode raises: "Error processing resource"
            /\ assigned' = Append(assigned, NoAssign)
            /\ UNCHANGED <<seen_filenames, res_map, ocr_tasks, files>>
       ELSE LET data     == B64Decode(res.data_b64)
                md5_hash == Md5(data)
                filename == AssignFilename(res, md5_hash, seen_filenames)
                reco     == res.recognition
                res_info == [filename |-> filename, data_b64 |-> res.data_b64,
                             mime |-> res.mime, recognition |-> reco,
                             ocr_position_data |-> None]
                queued   == QueuesOcr(reco, ocr_enabled, IsImageMime(res.mime))
                saved    == WriteFile(files, filename, [kind |-> "data", val |-> data])
            IN  IF Unwritable(filename)
                THEN \* open raises after the name was taken: "Error processing
                     \* resource"
                     /\ seen_filenames' = seen_filenames \cup {filename}
                     /\ assigned' = Append(assigned, NoAssign)
                     /\ UNCHANGED <<res_map, ocr_tasks, files>>
                ELSE
                /\ seen_filenames' = seen_filenames \cup {filename}
                /\ assigned' = Append(assigned, filename)
                /\ res_map' = MapPut(res_map, md5_hash, res_info)
                /\ ocr_tasks' = IF queued
                                THEN Append(ocr_tasks, [md5_hash |-> md5_hash, data |-> data,
                                                        filename |-> filename, res |-> ri])
                                ELSE ocr_tasks
                /\ files' = IF ~queued /\ HasReco(reco)
                            THEN WriteFile(saved, Sidecar(filename, <<".", "xml">>),
                                           [kind |-> "xml", val |-> reco])
                            ELSE saved
    /\ ri' = ri + 1
    /\ UNCHANGED <<pc, resources, futures, ocrCalls>>

\* "Filter out SVGs just in case"
IsSvgName(filename) == EndsWith(LowerStr(filename), <<".", "svg">>)
ValidTasks(tasks) == LET Keep(t) == ~IsSvgName(t.filename) IN SelectSeq(tasks, Keep)

OcrWorkers == 2

\* a faulty second pass that begins once one resource has been handled
FirstPassBegun(next, res) == next > 1

\* "for res in resources" has run to its end
FirstPassOver(next, res) == next > Len(res)

\* end of the first pass: filter, then submit every task to the executor
OcrDispatch ==
    /\ pc = "resources"
    /\ ~sig
    /\ FirstPassOver(ri, resources)
    /\ LET valid == ValidTasks(ocr_tasks) IN
       /\ ocr_tasks' = valid
       /\ futures' = [k \in 1..Len(valid) |->
                        [state |-> "pending", result |-> "-", merged |-> FALSE]]
       /\ pc' = IF valid = <<>> THEN "transform" ELSE "ocr"
    /\ UNCHANGED <<resources, ri, seen_filenames, res_map, files, assigned, ocrCalls>>

Running == {k \in 1..Len(futures) : futures[k].state = "running"}
Pending == {k \in 1..Len(futures) : futures[k].state = "pending"}

\* a faulty pool that starts a thread for every submitted task
WorkerPerTask(running) == TRUE

\* ThreadPoolExecutor(max_workers=self.ocr_workers): a worker is idle or can
\* still be started
WorkerFree(running) == Cardinality(running) < OcrWorkers

\* a worker thread takes the oldest queued task
OcrStart(k) ==
    /\ pc \in {"ocr", "ocr_unwind"}
    /\ k \in Pending
    /\ \A j \in Pending : k <= j
    /\ WorkerFree(Running)
    /\ futures' = [futures EXCEPT ![k].state = "running"]
    /\ UNCHANGED <<pc, resources, ri, seen_filenames, res_map, ocr_tasks, files, assigned,
                   ocrCalls>>

\* what _perform_ocr can return for these bytes:
\*   "none"  (None, None) before any recognition call
\*   "text"  words recognised, sidecars written
\*   "fail"  recognition call failed or found no words: (None, None)
\*   "raise" a sidecar could not be written: the exception leaves _perform_ocr
ReachesTesseract(data) == IsRaster(data) /\ ~TooSmall(data)
OcrOutcomes(data) == IF ReachesTesseract(data) THEN {"text", "fail", "raise"} ELSE {"none"}

\* _perform_ocr runs to its end in a worker thread
OcrFinish(k) ==
    /\ pc \in {"ocr", "ocr_unwind"}
    /\ k \in Running
    /\ LET t == ocr_tasks[k] IN
       \E o \in OcrOutcomes(t.data) :
          /\ futures' = [futures EXCEPT ![k].state = "done", ![k].result = o]
          /\ ocrCalls' = IF ReachesTesseract(t.data) THEN ocrCalls \cup {k} ELSE ocrCalls
          /\ files' = IF o = "text"
                      THEN WriteFile(WriteFile(files, Sidecar(t.filename, <<".", "xml">>),
                                               [kind |-> "xml", val |-> OcrText(t.data)]),
                                     Sidecar(t.filename, <<".", "ocr", ".", "json">>),
                                     [kind |-> "json", val |-> OcrPos(t.data)])
                      ELSE files
    /\ UNCHANGED <<pc, resources, ri, seen_filenames, res_map, ocr_tasks, assigned>>

\* the value future.result() hands to the merge loop
ResultReco(t, o) == IF o = "text" THEN OcrText(t.data) ELSE None
ResultPos(t, o)  == IF o = "text" THEN OcrPos(t.data) ELSE None

\* a faulty merge loop that lets the exception of a task leave the loop
AfterMergeEscapes(o) == IF o = "raise" THEN "escaped" ELSE "ocr"

\* where the merge loop goes after one future, whatever future.result() did:
\* "except Exception" logs "OCR Failed" and the loop goes on
AfterMerge(o) == "ocr"

\* one iteration of "for future in as_completed(futures)"
OcrMerge(k) ==
    /\ pc = "ocr"
    /\ ~sig
    /\ k \in 1..Len(futures)
    /\ futures[k].state = "done"
    /\ ~futures[k].merged
    /\ LET t == ocr_tasks[k]
           o == futures[k].result
       IN  res_map' = IF o = "raise"
                      THEN res_map
                      ELSE [res_map EXCEPT ![t.md5_hash].recognition = ResultReco(t, o),
                                           ![t.md5_hash].ocr_position_data = ResultPos(t, o)]
    /\ futures' = [futures EXCEPT ![k].merged = TRUE]
    /\ pc' = AfterMerge(futures[k].result)
    /\ UNCHANGED <<resources, ri, seen_filenames, ocr_tasks, files, assigned, ocrCalls>>

\* a faulty loop that stops at the first future that completes
FirstMerged == \E k \in 1..Len(futures) : futures[k].merged

\* as_completed(futures) is exhausted: every future was handed to the loop
AllMerged == \A k \in 1..Len(futures) : futures[k].merged

\* the with-block ends and _process_resources_parallel returns res_map
OcrJoin ==
    /\ pc = "ocr"
    /\ ~sig
    /\ AllMerged
    /\ pc' = "transform"
    /\ UNCHANGED resVars


(***************************************************************************)
(* Notes, archives and configuration                                       *)
(***************************************************************************)
NoTitle == <<None>>      \* note_elem.findtext('title') returned None
D1 == "2023-05-01"       \* the day of a parsed 'created' timestamp

DateFormat == "%Y-%m-%d"

\* created.strftime(fmt)
Strftime(created, fmt) == CASE created = D1 /\ fmt = "%Y-%m-%d" -> <<"2023-05-01">>
                            [] created = D1 /\ fmt = "%Y%m%d"   -> <<"20230501">>

\* date_str of process_single_note and convert_note
DateStr(created) == IF created # None THEN Strftime(created, DateFormat) ELSE <<"NoDate">>

\* str(created).split(' ')[0]
DatePart(created) == CASE created = D1 -> <<"2023-05-01">>

\* hashlib.md5(title.encode()).hexdigest()[:4]
TitleHash(title) == CASE title = <<"a">>      -> <<"0cc1">>
                      [] title = <<"b", "/">> -> <<"1c6b">>
                      [] title = <<"c">>      -> <<"4a8a">>
                      [] OTHER                -> <<"911a">>

\* title = note_data['title'] or "Untitled"
TitleOrUntitled(title) == IF title = NoTitle \/ title = <<>> THEN <<"Untitled">> ELSE title

EligibleImage == [data_b64 |-> "b64:big", mime |-> "image/png",
                  filename |-> <<"a", ".", "png">>, recognition |-> None]

\* ENML content as the sequence of its nodes. link is src, data or href;
\* text is alt or the string of the element; fallback_* is the <a> inside
\* the <p> an <object> carries.
Node(tag, hash, type, link, text, fallback_link, fallback_text) ==
    [tag |-> tag, hash |-> hash, type |-> type, link |-> link, text |-> text,
     fallback_link |-> fallback_link, fallback_text |-> fallback_text]

\* <en-media hash=... type=...>; type "" when the attribute is missing
Media(hash, type) == Node("en-media", hash, type, None, None, None, None)
TextNode == Node("text", None, None, None, None, None, None)
Broken == Node("broken", None, None, None, None, None, None)

Plain == <<TextNode>>
Malformed == <<Broken>>
Raises(content) == \E i \in 1..Len(content) : content[i].tag = "broken"

\* f"note_contents/{filename}", without the subfolder in the faulty variant
LinkPathBare(filename) == <<filename>>
LinkPath(filename) == <<<<"note_contents">>, filename>>

\* the element that replaces one <en-media>
NewTag(media, filename) ==
    LET link_path == LinkPath(filename)
        mime      == media.type
    IN  IF IsImageMime(mime)
        THEN Node("img", None, None, link_path, filename, None, None)
        ELSE IF mime = "application/pdf"
        THEN Node("object", None, "application/pdf", link_path, None, link_path,
                  <<"Download ">> \o filename)
        ELSE Node("a", None, None, link_path, filename, None, None)

\* NoteConverter._create_intermediate_html: "Handle en-media"
CreateIntermediateHtml(content, resource_map) ==
    [i \in 1..Len(content) |->
        IF content[i].tag = "en-media" /\ content[i].hash \in DOMAIN resource_map
        THEN NewTag(content[i], resource_map[content[i].hash].filename)
        ELSE content[i]]

\* content Malformed: markup on which _create_intermediate_html raises
NoteKinds ==
    { [title |-> <<"a">>,      created |-> D1,   content |-> Plain,
       resources |-> <<EligibleImage>>],
      [title |-> <<"a">>,      created |-> None, content |-> Plain,     resources |-> <<>>],
      [title |-> <<"b", "/">>, created |-> D1,   content |-> Malformed, resources |-> <<>>] }

\* a note without a <title> element
UntitledNote == [title |-> NoTitle, created |-> D1, content |-> Plain, resources |-> <<>>]

MaxNotes == 2
ListsOver(kinds) == UNION {[1..k -> kinds] : k \in 0..MaxNotes}
NoteLists == ListsOver(NoteKinds)

\* archive locations below the input root: [rel, stem]
Root == <<>>
Sub == <<<<"sub">>>>
Single == <<[rel |-> Root, stem |-> <<"n1">>]>>
Nested == <<[rel |-> Root, stem |-> <<"n1">>], [rel |-> Sub,  stem |-> <<"n1">>]>>
Flat == <<[rel |-> Root, stem |-> <<"n1">>], [rel |-> Root, stem |-> <<"n2">>]>>

\* enex_files with their contents; every archive of a batch holds the same notes
BatchesOf(layouts, lists) ==
    { [i \in 1..Len(l) |-> [rel |-> l[i].rel, stem |-> l[i].stem,
                            notes |-> ns, malformed |-> m]] :
        l \in layouts, ns \in lists, m \in BOOLEAN }

FormatSets == { {"html"}, {"html", "markdown", "pdf"} }

NoRetryFile == [given |-> FALSE, readable |-> TRUE, data |-> <<>>]

\* a retry file that json.load accepts: a list of dicts or of bare titles
RetryFile(data) == [given |-> TRUE, readable |-> TRUE, data |-> data]
RetryDict(stem, title) ==
    [dict |-> TRUE, enex_file |-> <<>>, enex_name |-> stem, title |-> title,
     reason |-> [kind |-> "error", elapsed |-> 0]]
\* old format: the entry is the title itself
RetryTitle(title) ==
    [dict |-> FALSE, enex_file |-> <<>>, enex_name |-> <<>>, title |-> title,
     reason |-> [kind |-> "error", elapsed |-> 0]]
RetryFiles ==
    { RetryFile(<<>>),
      RetryFile(<<RetryDict(<<"n1">>, <<"a">>)>>),
      RetryFile(<<RetryDict(<<"n2">>, <<"b", "/">>), RetryDict(<<>>, <<"a">>)>>),
      RetryFile(<<RetryTitle(<<"b", "/">>)>>),
      [given |-> TRUE, readable |-> FALSE, data |-> <<>>] }

\* timeout_sec; the clock of the model counts whole seconds
TimeoutSec == 1
MaxOverrun == 1
MaxFaults == 1

Archive == batch[ai]
Note == Archive.notes[ni]
enex_stem == Archive.stem

\* output_root_for_enex = Path(base_output_root) / rel_path / enex_stem
OutputRootForEnex(a) == a.rel \o <<a.stem>>

(***************************************************************************)
(* The failure journal: enex2all.py, process_enex "Write Fail Log"         *)
(***************************************************************************)
\* str(enex_path)
EnexPath(a) == a.rel \o <<a.stem \o <<".", "enex">>>>

Failure(a, title, reason) ==
    [dict |-> TRUE, enex_file |-> EnexPath(a), enex_name |-> a.stem,
     title |-> title, reason |-> reason]

ReasonError == [kind |-> "error", elapsed |-> 0]
ReasonTimeout(secs) == [kind |-> "timeout", elapsed |-> secs]
ReasonParse == [kind |-> "parse", elapsed |-> 0]
ParseErrorTitle == <<"(PARSE ERROR - REMAINING NOTES SKIPPED)">>

\* key = (entry.get('enex_name', ''), entry.get('title', '')) or ('', entry)
KeyOf(entry) == IF entry.dict THEN <<entry.enex_name, entry.title>> ELSE <<<<>>, entry.title>>

\* "Dedupe by (enex_name, title) key": the first entry of a key is kept
RECURSIVE Dedupe(_, _)
Dedupe(entries, seen_keys) ==
    IF entries = <<>> THEN <<>>
    ELSE LET e == Head(entries) IN
         IF KeyOf(e) \in seen_keys
         THEN Dedupe(Tail(entries), seen_keys)
         ELSE <<e>> \o Dedupe(Tail(entries), seen_keys \cup {KeyOf(e)})

\* a faulty merge that appends without looking at the keys
MergeJournalAppend(existing_failures, new_failures) == existing_failures \o new_failures

\* combined, as written to fail_log_path
MergeJournal(existing_failures, new_failures) == Dedupe(existing_failures \o new_failures, {})

Keys(entries) == {KeyOf(entries[i]) : i \in 1..Len(entries)}
EntriesOf(entries, key) == {i \in 1..Len(entries) : KeyOf(entries[i]) = key}

(***************************************************************************)
(* Retry filter: enex2all.py, process_enex "Retry Filter Logic"            *)
(***************************************************************************)
\* retry_entries built from retry_data
RetrySet(data) ==
    {IF data[i].dict THEN <<data[i].enex_name, data[i].title>> ELSE <<<<>>, data[i].title>> :
        i \in 1..Len(data)}

\* a faulty filter that knows only full (enex_name, title) pairs
RetryAdmitsPairOnly(entries, stem, title) == <<stem, title>> \in entries

\* the note is passed on to processing
RetryAdmits(entries, stem, title) == <<stem, title>> \in entries \/ <<<<>>, title>> \in entries

(***************************************************************************)
(* Resume check and output paths                                           *)
(***************************************************************************)
PdfDirName == <<"_PDF">>
PdfExt == <<".", "pdf">>

\* pdf_base_path = base_output_root / "_PDF" / enex_stem
PdfBasePath(stem) == <<PdfDirName, stem>>

DirExists(dir, paths) == \E f \in paths : Len(f) > Len(dir) /\ SubSeq(f, 1, Len(dir)) = dir

\* "Check Resume (Reuse Logic)": the primary artifact is already there
ResumeHit(note, stem, pdfs) ==
    LET sanitized_title == Sanitize(note.title)
        base            == PdfBasePath(stem)
        potential_pdf   == base \o <<sanitized_title \o PdfExt>>
        potential_prefixed_pdf ==
            base \o <<DateStr(note.created) \o <<"_">> \o sanitized_title \o PdfExt>>
    IN  /\ DirExists(base, pdfs)
        /\ (potential_pdf \in pdfs \/ potential_prefixed_pdf \in pdfs)

\* convert_note: "Create directory name", "Avoid duplicate dirs"
TargetDir(a, note, dirs) ==
    LET title    == TitleOrUntitled(note.title)
        dir_name == DateStr(note.created) \o <<"_">> \o Sanitize(title)
        plain    == OutputRootForEnex(a) \o <<dir_name>>
    IN  IF plain \in dirs
        THEN OutputRootForEnex(a) \o <<dir_name \o <<"_">> \o TitleHash(title)>>
        ELSE plain

\* PdfFormatter._copy_to_pdf_folder: dest_path
PdfCopyPath(dir, title, created) ==
    LET enex_folder == dir[Len(dir) - 1]
        output_root == SubSeq(dir, 1, Len(dir) - 2)
        pdf_name    == PdfSanitize(title) \o PdfExt
        filename    == IF created # None /\ ~StartsWith(pdf_name, DatePart(created))
                       THEN DatePart(created) \o <<"_">> \o pdf_name
                       ELSE pdf_name
    IN  output_root \o <<PdfDirName, enex_folder>> \o <<filename>>


(***************************************************************************)
(* process_enex and process_single_note: enex2all.py                       *)
(***************************************************************************)
Pipeline == {"resume", "convert", "resources", "ocr", "transform", "html", "markdown",
             "pdf", "ret"}

EmptyMap == [x \in {} |-> None]

ResetResources ==
    /\ resources' = <<>>
    /\ ri' = 1
    /\ seen_filenames' = {}
    /\ res_map' = EmptyMap
    /\ ocr_tasks' = <<>>
    /\ futures' = <<>>
    /\ files' = EmptyMap
    /\ assigned' = <<>>
    /\ ocrCalls' = {}

\* int(time.time() - start_time)
ElapsedSec(ticks) == ticks

\* the timer after "signal.alarm(0)  # Cancel alarm" and the finally clause
AlarmCancelled(remaining) == 0

\* a faulty resume check that goes on to convert the note after counting it
AfterSkipFallThrough == "convert"

\* where control goes on "return (False, True, title)": back to the note loop
AfterSkip == "parse"

\* a faulty loop that gives up the archive at the first failed note
AfterFailureBreak == "journal"

\* where control goes after a note was counted Failed: back to the note loop
AfterFailure == "parse"

\* failed_notes_log.append({...}) of a Failed note
\* a faulty log that keeps the latest failure only
FailedLogLatest(log, a, title, reason) == <<Failure(a, title, reason)>>

FailedLog(log, a, title, reason) == Append(log, Failure(a, title, reason))

\* a faulty handler that logs nothing for the unparsed remainder
ParseFailureLogNone(log, a) == log

\* failed_notes_log.append({... "(PARSE ERROR - REMAINING NOTES SKIPPED)" ...})
ParseFailureLog(log, a) == Append(log, Failure(a, ParseErrorTitle, ReasonParse))

\* the note has left process_single_note: alarm cancelled, note_data dropped
EndNote(outcome) ==
    /\ alarm' = AlarmCancelled(alarm)
    /\ sig' = FALSE
    /\ elapsed' = 0
    /\ target_dir' = <<>>
    /\ renderCalls' = {}
    /\ intermediate_html' = <<>>
    /\ ResetResources
    /\ lastOutcome' = outcome

\* the note is counted Failed and logged (lines 232-238, 242-248)
RecordFailure(title, reason) ==
    /\ errors' = errors + 1
    /\ failed_notes_log' = FailedLog(failed_notes_log, Archive, title, reason)
    /\ UNCHANGED <<count, skipped, retry_entries>>

\* the formatter calls that follow a stage, in the order of process_single_note
StageOrder == <<"transform", "html", "markdown", "pdf", "ret">>
StageIndex(stage) == CHOOSE i \in 1..Len(StageOrder) : StageOrder[i] = stage
StageAfter(stage) ==
    LET later == {i \in (StageIndex(stage) + 1)..Len(StageOrder) :
                     StageOrder[i] = "ret" \/ StageOrder[i] \in formats}
    IN  StageOrder[CHOOSE i \in later : \A j \in later : i <= j]

\* main's loop: the next archive, the next invocation, or the end
Advance ==
    IF ai < Len(batch)
    THEN ai' = ai + 1 /\ pc' = "start" /\ run' = run
    ELSE IF run < runs
    THEN ai' = 1 /\ pc' = "start" /\ run' = run + 1
    ELSE ai' = ai /\ pc' = "done" /\ run' = run

\* process_enex up to the archive loop: counters, retry file
ArchiveStart ==
    /\ pc = "start"
    /\ count' = 0 /\ skipped' = 0 /\ errors' = 0
    /\ failed_notes_log' = <<>>
    /\ ni' = 0
    /\ IF ~retry_file.given
       THEN /\ retry_entries' = [active |-> FALSE, entries |-> {}]
            /\ pc' = "parse"
            /\ UNCHANGED <<run, ai>>
       ELSE IF retry_file.readable
       THEN /\ retry_entries' = [active |-> TRUE, entries |-> RetrySet(retry_file.data)]
            /\ pc' = "parse"
            /\ UNCHANGED <<run, ai>>
       ELSE \* "Failed to load retry file": process_enex returns
            /\ retry_entries' = [active |-> FALSE, entries |-> {}]
            /\ Advance
    /\ UNCHANGED <<writers, scanVars, inputVars, noteVars, resVars, diskVars, outVars>>

\* the parser yields the next note; retry filter; the alarm is armed
ParseYield ==
    /\ pc = "parse"
    /\ ni < Len(Archive.notes)
    /\ ni' = ni + 1
    /\ LET title == Archive.notes[ni + 1].title IN
       IF retry_entries.active /\ ~RetryAdmits(retry_entries.entries, enex_stem, title)
       THEN /\ skipped' = skipped + 1
            /\ lastOutcome' = "retry_skip"
            /\ UNCHANGED <<pc, count, errors, failed_notes_log, retry_entries, alarm>>
       ELSE /\ alarm' = TimeoutSec
            /\ pc' = "resume"
            /\ lastOutcome' = "running"
            /\ UNCHANGED arcVars
    /\ UNCHANGED <<writers, scanVars, inputVars, run, ai, target_dir, sig, elapsed, renderCalls, intermediate_html, resVars,
                   diskVars, report, faults>>

\* the parser raises on malformed input after the notes it could read
ParseError ==
    /\ pc = "parse"
    /\ ni = Len(Archive.notes)
    /\ Archive.malformed
    /\ failed_notes_log' = ParseFailureLog(failed_notes_log, Archive)
    /\ pc' = "journal"
    /\ UNCHANGED <<writers, scanVars, inputVars, run, ai, ni, count, skipped, errors, retry_entries,
                   noteVars, resVars, diskVars, outVars>>

\* the parser is exhausted
ParseEnd ==
    /\ pc = "parse"
    /\ ni = Len(Archive.notes)
    /\ ~Archive.malformed
    /\ pc' = "journal"
    /\ UNCHANGED <<writers, scanVars, inputVars, run, ai, ni, arcVars, noteVars, resVars, diskVars, outVars>>

\* process_single_note up to the resume decision
ResumeCheck ==
    /\ pc = "resume"
    /\ ~sig
    /\ IF Note.title = NoTitle
       THEN \* _sanitize_filename(None) raises TypeError: (False, False, title)
            /\ RecordFailure(Note.title, ReasonError)
            /\ EndNote("error")
            /\ pc' = AfterFailure
       ELSE IF ResumeHit(Note, enex_stem, fsPdfs)
       THEN \* (False, True, title)
            /\ skipped' = skipped + 1
            /\ EndNote("resume_skip")
            /\ pc' = AfterSkip
            /\ UNCHANGED <<count, errors, failed_notes_log, retry_entries>>
       ELSE /\ pc' = "convert"
            /\ UNCHANGED <<arcVars, noteVars, resVars, lastOutcome>>
    /\ UNCHANGED <<writers, scanVars, inputVars, run, ai, ni, diskVars, report, faults>>

\* convert_note: directory name, mkdir, note_contents
ConvertStart ==
    /\ pc = "convert"
    /\ ~sig
    /\ target_dir' = TargetDir(Archive, Note, fsDirs)
    /\ fsDirs' = fsDirs \cup {target_dir'}
    /\ resources' = Note.resources
    /\ pc' = "resources"
    /\ UNCHANGED <<writers, scanVars, inputVars, run, ai, ni, arcVars, alarm, sig, elapsed, renderCalls, intermediate_html,
                   ri, seen_filenames, res_map, ocr_tasks, futures, files, assigned,
                   ocrCalls, fsPdfs, journal, outVars>>

\* the exception handler of process_single_note: (False, False, title)
NoteError(title) ==
    /\ RecordFailure(title, ReasonError)
    /\ EndNote("error")
    /\ pc' = AfterFailure

\* _create_intermediate_html
Transform ==
    /\ pc = "transform"
    /\ ~sig
    /\ IF Raises(Note.content)
       THEN \* the transformation raises inside convert_note: title is still
            \* note_data.get('title')
            NoteError(Note.title)
       ELSE /\ intermediate_html' = CreateIntermediateHtml(Note.content, res_map)
            /\ pc' = StageAfter("transform")
            /\ UNCHANGED <<arcVars, target_dir, alarm, sig, elapsed, renderCalls, resVars,
                           lastOutcome>>
    /\ UNCHANGED <<writers, scanVars, inputVars, run, ai, ni, diskVars, report, faults>>

\* html_formatter.generate / md_formatter.generate
Render(fmt) ==
    /\ pc = fmt
    /\ ~sig
    /\ \/ /\ renderCalls' = renderCalls \cup {fmt}
          /\ pc' = StageAfter(fmt)
          /\ UNCHANGED <<arcVars, target_dir, alarm, sig, elapsed, intermediate_html,
                         resVars, lastOutcome, faults>>
       \/ /\ faults < MaxFaults
          /\ faults' = faults + 1
          /\ NoteError(TitleOrUntitled(Note.title))
    /\ UNCHANGED <<writers, scanVars, inputVars, run, ai, ni, diskVars, report>>

RenderHtml == Render("html")
RenderMarkdown == Render("markdown")

\* pdf_formatter.generate: write_pdf, then _copy_to_pdf_folder
RenderPdf ==
    /\ pc = "pdf"
    /\ ~sig
    /\ \/ /\ renderCalls' = renderCalls \cup {"pdf"}
          /\ fsPdfs' = fsPdfs \cup {PdfCopyPath(target_dir, TitleOrUntitled(Note.title),
                                                Note.created)}
          /\ pc' = "ret"
          /\ UNCHANGED <<arcVars, target_dir, alarm, sig, elapsed, intermediate_html,
                         resVars, lastOutcome, faults>>
       \/ /\ faults < MaxFaults
          /\ faults' = faults + 1
          /\ NoteError(TitleOrUntitled(Note.title))
          /\ UNCHANGED fsPdfs
    /\ UNCHANGED <<writers, scanVars, inputVars, run, ai, ni, fsDirs, journal, report>>

\* (True, False, title); signal.alarm(0); count += 1
NoteReturn ==
    /\ pc = "ret"
    /\ ~sig
    /\ count' = count + 1
    /\ EndNote("converted")
    /\ pc' = "parse"
    /\ UNCHANGED <<writers, scanVars, inputVars, run, ai, ni, skipped, errors, failed_notes_log,
                   retry_entries, diskVars, report, faults>>

\* a second passes; the timer, when it runs out, delivers SIGALRM
Tick ==
    /\ alarm > 0
    /\ pc # "killed"
    /\ alarm = 1 => faults < MaxFaults
    /\ alarm' = alarm - 1
    /\ elapsed' = IF pc \in Pipeline THEN elapsed + 1 ELSE elapsed
    /\ sig' = (alarm = 1)
    /\ faults' = IF alarm = 1 THEN faults + 1 ELSE faults
    /\ UNCHANGED <<writers, scanVars, inputVars, ctlVars, arcVars, target_dir, renderCalls, intermediate_html, resVars,
                   diskVars, report, lastOutcome>>

AllDone == \A k \in 1..Len(futures) : futures[k].state = "done"

\* except TimeoutException: the note is Failed with the elapsed time
TimeoutHandler ==
    /\ RecordFailure(Note.title, ReasonTimeout(ElapsedSec(elapsed)))
    /\ EndNote("timeout")
    /\ pc' = AfterFailure

\* SIGALRM is handled: timeout_handler raises TimeoutException in the main
\* thread while a note is in the pipeline; outside of it the handler is not
\* installed and the signal ends the process
TimeoutRaise ==
    /\ sig
    /\ pc # "killed"
    /\ IF pc \notin Pipeline
       THEN /\ pc' = "killed"
            /\ sig' = FALSE
            /\ UNCHANGED <<arcVars, target_dir, alarm, elapsed, renderCalls, intermediate_html, resVars,
                           lastOutcome>>
       ELSE IF pc = "ocr" /\ ~AllDone
       THEN \* the executor's with-block waits for the submitted tasks
            /\ pc' = "ocr_unwind"
            /\ sig' = FALSE
            /\ UNCHANGED <<arcVars, target_dir, alarm, elapsed, renderCalls, intermediate_html, resVars,
                           lastOutcome>>
       ELSE TimeoutHandler
    /\ UNCHANGED <<writers, scanVars, inputVars, run, ai, ni, diskVars, report, faults>>

\* time passes while the executor shuts down
UnwindTick ==
    /\ pc = "ocr_unwind"
    /\ elapsed < TimeoutSec + MaxOverrun
    /\ elapsed' = elapsed + 1
    /\ UNCHANGED <<writers, scanVars, inputVars, ctlVars, arcVars, target_dir, alarm, sig, renderCalls, intermediate_html,
                   resVars, diskVars, outVars>>

\* the executor has shut down; the exception reaches process_enex
UnwindDone ==
    /\ pc = "ocr_unwind"
    /\ AllDone
    /\ TimeoutHandler
    /\ UNCHANGED <<writers, scanVars, inputVars, run, ai, ni, diskVars, report, faults>>

\* "Write Fail Log" when there is nothing to write
JournalSkip ==
    /\ pc = "journal"
    /\ failed_notes_log = <<>>
    /\ pc' = "finish"
    /\ UNCHANGED <<writers, scanVars, inputVars, run, ai, ni, arcVars, noteVars, resVars, diskVars, outVars>>

\* a faulty block that starts from an empty list whatever the file holds
ReadJournalFresh(j) == <<>>

\* json.load(f) of the existing file: [] when there is none or when it does
\* not parse
ReadJournal(j) == IF j.exists /\ j.form = "list" THEN j.entries ELSE <<>>

\* existing_failures + failed_notes_log is defined: the file held a list, did
\* not parse, or was not there
Mergeable(j) == ~(j.exists /\ j.form = "object")

\* a faulty block whose exception leaves process_enex
AfterJournalErrorEscapes == "killed"

\* except Exception: "Failed to write fail logs", then the "Finished" line
AfterJournalError == "finish"

\* "Write Fail Log": read, merge, write
JournalWrite ==
    /\ pc = "journal"
    /\ failed_notes_log # <<>>
    /\ \/ /\ Mergeable(journal)
          /\ journal' = [exists |-> TRUE, form |-> "list",
                         entries |-> MergeJournal(ReadJournal(journal), failed_notes_log)]
          /\ pc' = "finish"
          /\ UNCHANGED faults
       \/ \* the existing file holds JSON that is not a list: TypeError
          /\ ~Mergeable(journal)
          /\ pc' = AfterJournalError
          /\ UNCHANGED <<journal, faults>>
       \/ \* the file cannot be opened or written
          /\ faults < MaxFaults
          /\ faults' = faults + 1
          /\ pc' = AfterJournalError
          /\ UNCHANGED journal
    /\ UNCHANGED <<writers, scanVars, inputVars, run, ai, ni, arcVars, noteVars, resVars, fsDirs, fsPdfs,
                   report, lastOutcome>>

\* "Finished ...: N converted, N skipped, N errors"; main's loop goes on
Finish ==
    /\ pc = "finish"
    /\ report' = Append(report, [run |-> run, archive |-> ai, converted |-> count,
                                 skipped |-> skipped, errors |-> errors,
                                 yielded |-> ni])
    /\ Advance
    /\ UNCHANGED <<writers, scanVars, inputVars, ni, arcVars, noteVars, resVars, diskVars, lastOutcome,
                   faults>>

\* what _process_resources_parallel leaves alone
ResourceFrame == UNCHANGED <<writers, scanVars, inputVars, run, ai, ni, arcVars, noteVars, diskVars, outVars>>

NextResources ==
    \/ ProcessResource /\ ResourceFrame
    \/ OcrDispatch /\ ResourceFrame
    \/ \E k \in 1..Len(futures) : OcrStart(k) /\ ResourceFrame
    \/ \E k \in 1..Len(futures) : OcrFinish(k) /\ ResourceFrame
    \/ \E k \in 1..Len(futures) : OcrMerge(k) /\ ResourceFrame
    \/ OcrJoin /\ ResourceFrame

Next ==
    \/ ArchiveStart
    \/ ParseYield
    \/ ParseError
    \/ ParseEnd
    \/ ResumeCheck
    \/ ConvertStart
    \/ NextResources
    \/ Transform
    \/ RenderHtml
    \/ RenderMarkdown
    \/ RenderPdf
    \/ NoteReturn
    \/ Tick
    \/ TimeoutRaise
    \/ UnwindTick
    \/ UnwindDone
    \/ JournalSkip
    \/ JournalWrite
    \/ Finish

\* no archive file is being read
NoScan == [phase |-> "idle", pos |-> 1, stack |-> <<>>, count |-> 0, yielded |-> 0,
           raised |-> FALSE]

\* no second process
NoWriters == <<>>

InitLocals ==
    /\ run = 1 /\ ai = 1 /\ ni = 0 /\ pc = "start"
    /\ count = 0 /\ skipped = 0 /\ errors = 0
    /\ failed_notes_log = <<>>
    /\ retry_entries = [active |-> FALSE, entries |-> {}]
    /\ target_dir = <<>> /\ alarm = 0 /\ sig = FALSE /\ elapsed = 0 /\ renderCalls = {}
    /\ intermediate_html = <<>>
    /\ resources = <<>> /\ ri = 1 /\ seen_filenames = {} /\ res_map = EmptyMap
    /\ ocr_tasks = <<>> /\ futures = <<>> /\ files = EmptyMap /\ assigned = <<>>
    /\ ocrCalls = {}
    /\ fsDirs = {} /\ fsPdfs = {}
    /\ report = <<>> /\ lastOutcome = "none" /\ faults = 0

InitControl == InitLocals /\ doc = <<>> /\ scan = NoScan /\ writers = NoWriters

NoJournal == [exists |-> FALSE, form |-> "list", entries |-> <<>>]

\* journals left behind by earlier invocations, or edited by hand
PriorJournals ==
    { [exists |-> TRUE, form |-> "list",
       entries |-> <<RetryDict(<<"n1">>, <<"b", "/">>), RetryDict(<<"n1">>, <<"b", "/">>)>>],
      [exists |-> TRUE, form |-> "list",
       entries |-> <<RetryTitle(<<"a">>), RetryDict(<<"n1">>, <<"a">>)>>] }

\* one invocation over two archives, two invocations over one archive, or
\* one invocation over one archive with a journal already in place
Init ==
    /\ \/ runs = 1 /\ batch \in BatchesOf({Nested, Flat}, NoteLists) /\ journal = NoJournal
       \/ runs = 2 /\ batch \in BatchesOf({Single}, NoteLists) /\ journal = NoJournal
       \/ /\ runs = 1
          /\ batch \in BatchesOf({Single}, ListsOver(NoteKinds \cup {UntitledNote}))
          /\ journal \in PriorJournals
    /\ formats \in FormatSets
    /\ retry_file = NoRetryFile
    /\ ocr_enabled = TRUE
    /\ InitControl

Spec == Init /\ [][Next]_vars

\* retry mode: one invocation over two archives with a retry file
InitRetry ==
    /\ runs = 1
    /\ batch \in BatchesOf({Flat}, NoteLists)
    /\ journal = NoJournal
    /\ formats \in FormatSets
    /\ retry_file \in RetryFiles
    /\ ocr_enabled = TRUE
    /\ InitControl

SpecRetry == InitRetry /\ [][Next]_vars

\* a journal file that does not parse, and one that holds a JSON object
BadJournals ==
    { [exists |-> TRUE, form |-> "corrupt", entries |-> <<>>],
      [exists |-> TRUE, form |-> "object", entries |-> <<>>] }

\* one invocation over two archives with such a journal in the output root
InitBadJournal ==
    /\ runs = 1
    /\ batch \in BatchesOf({Flat}, NoteLists)
    /\ journal \in BadJournals
    /\ formats = {"html", "markdown", "pdf"}
    /\ retry_file = NoRetryFile
    /\ ocr_enabled = TRUE
    /\ InitControl

SpecBadJournal == InitBadJournal /\ [][Next]_vars

(***************************************************************************)
(* Resource processing of one note, for every short resource list          *)
(***************************************************************************)
Res(payload, mime, filename, recognition) ==
    [data_b64 |-> payload, mime |-> mime, filename |-> filename,
     recognition |-> recognition]

\* resources that are saved
SavedKinds ==
    { EligibleImage,
      Res("b64:flat", "image/png", <<"a", ".", "png">>, ""),
      Res("b64:doc", "application/pdf", <<"a", "_", "1", ".", "png">>, None),
      Res("b64:big", "image/png", NoName, "xml:given"),
      Res("b64:tiny", "image/png", NoName, None),
      Res("b64:svg", "image/svg+xml", <<"A", ".", "SVG">>, None),
      Res("b64:photo", "image/png", NoName, None),
      Res("b64:doc", "image/png", NoName, None) }

\* an attachment that carries the name of another resource's recognition file
XmlNamed == Res("b64:doc", "application/pdf", <<"a", ".", "png", ".", "xml">>, None)

\* resources that are passed over: a payload that does not decode, no
\* payload, a file name that cannot be created
ResourceKinds ==
    SavedKinds \cup { XmlNamed,
                      Res("b64:bad", "image/png", <<"a", ".", "png">>, None),
                      Res("", "image/png", <<"a", ".", "png">>, None),
                      Res("b64:photo", "image/png", <<".", ".">>, None) }

\* lists of MaxRes saved resources, and shorter lists of any resources
MaxRes == 3
ResourceLists ==
    [1..MaxRes -> SavedKinds] \cup UNION {[1..k -> ResourceKinds] : k \in 0..(MaxRes - 1)}

NoteWith(rs) == [title |-> <<"a">>, created |-> D1, content |-> Plain, resources |-> rs]

\* convert_note has created the note directory and calls
\* _process_resources_parallel(note_data['resources'], content_dir)
InitNote(note) ==
    /\ runs = 1
    /\ batch = <<[rel |-> Root, stem |-> <<"n1">>, notes |-> <<note>>, malformed |-> FALSE]>>
    /\ resources = note.resources
    /\ formats = {"html"}
    /\ retry_file = NoRetryFile
    /\ run = 1 /\ ai = 1 /\ ni = 1 /\ pc = "resources"
    /\ count = 0 /\ skipped = 0 /\ errors = 0
    /\ failed_notes_log = <<>>
    /\ retry_entries = [active |-> FALSE, entries |-> {}]
    /\ target_dir = TargetDir(batch[1], batch[1].notes[1], {})
    /\ alarm = TimeoutSec /\ sig = FALSE /\ elapsed = 0 /\ renderCalls = {}
    /\ intermediate_html = <<>>
    /\ ri = 1 /\ seen_filenames = {} /\ res_map = EmptyMap
    /\ ocr_tasks = <<>> /\ futures = <<>> /\ files = EmptyMap /\ assigned = <<>>
    /\ ocrCalls = {}
    /\ fsDirs = {target_dir} /\ fsPdfs = {}
    /\ journal = NoJournal
    /\ report = <<>> /\ lastOutcome = "running" /\ faults = 0
    /\ doc = <<>> /\ scan = NoScan /\ writers = NoWriters

InitRes ==
    /\ ocr_enabled \in BOOLEAN
    /\ \E rs \in ResourceLists : InitNote(NoteWith(rs))

SpecRes == InitRes /\ [][NextResources]_vars

(***************************************************************************)
(* convert_note from the resources to the intermediate HTML                *)
(***************************************************************************)
\* the resources a note's content refers to: an image, a document, and the
\* document's bytes once more under an image mime
ReferredKinds ==
    { EligibleImage,
      Res("b64:doc", "application/pdf", <<"a", "_", "1", ".", "png">>, None),
      Res("b64:doc", "image/png", NoName, None) }

\* <en-media> nodes: hashes of the bytes above and of bytes no resource has
MediaHashes == {"h1", "h4", "h9"}
MediaTypes == {"image/png", "application/pdf", "audio/wav", ""}
ContentNodes == {Media(h, t) : h \in MediaHashes, t \in MediaTypes} \cup {TextNode}

MaxMedia == 2
Contents == UNION {[1..n -> ContentNodes] : n \in 0..MaxMedia}

InitTransform ==
    /\ ocr_enabled = TRUE
    /\ \E rs \in UNION {[1..k -> ReferredKinds] : k \in 0..2}, c \in Contents :
          InitNote([title |-> <<"a">>, created |-> D1, content |-> c, resources |-> rs])

NextTransform ==
    \/ NextResources
    \/ Transform

SpecTransform == InitTransform /\ [][NextTransform]_vars

(***************************************************************************)
(* Reading one archive: the pre-scan of main, then the parser              *)
(***************************************************************************)
\* markup tokens: <x> stands for any element other than note, & for markup
\* that is not well formed
Tokens == {"<note>", "</note>", "<x>", "</x>", "&"}
IsOpen(t) == t \in {"<note>", "<x>"}
IsClose(t) == t \in {"</note>", "</x>"}
TagOf(t) == IF t \in {"<note>", "</note>"} THEN "note" ELSE "x"

MaxDoc == 5
Docs == UNION {[1..n -> Tokens] : n \in 0..MaxDoc}

\* the tag the pre-scan and the parser ask iterparse for
CountTag == "note"
ParseTagOther == "x"
ParseTag == "note"

\* etree.iterparse(events=('end',), tag=tag): one token further; event tells
\* whether an end event for tag is delivered
IterNext(pos, stack, tag) ==
    IF pos > Len(doc)
    THEN [status |-> IF stack = <<>> THEN "end" ELSE "error",
          pos |-> pos, stack |-> stack, event |-> FALSE]
    ELSE LET t == doc[pos] IN
         IF IsOpen(t)
         THEN [status |-> "more", pos |-> pos + 1, stack |-> Append(stack, TagOf(t)),
               event |-> FALSE]
         ELSE IF IsClose(t) /\ stack # <<>> /\ stack[Len(stack)] = TagOf(t)
         THEN [status |-> "more", pos |-> pos + 1,
               stack |-> SubSeq(stack, 1, Len(stack) - 1), event |-> TagOf(t) = tag]
         ELSE [status |-> "error", pos |-> pos, stack |-> stack, event |-> FALSE]

ScanFrame ==
    UNCHANGED <<writers, doc, inputVars, ctlVars, arcVars, noteVars, resVars, diskVars, outVars>>

ParserStart(s) == [s EXCEPT !.phase = "parse", !.pos = 1, !.stack = <<>>]

\* count_notes_in_enex: recover=True lets the parser go on after broken
\* markup where it can; an exception ends the scan with the count so far
CountStep ==
    /\ scan.phase = "count"
    /\ LET n == IterNext(scan.pos, scan.stack, CountTag) IN
       \/ /\ n.status = "more"
          /\ scan' = [scan EXCEPT !.pos = n.pos, !.stack = n.stack,
                                  !.count = IF n.event THEN @ + 1 ELSE @]
       \/ /\ n.status = "error" /\ scan.pos <= Len(doc)
          /\ scan' = [scan EXCEPT !.pos = @ + 1]
       \/ /\ n.status \in {"end", "error"}
          /\ scan' = ParserStart(scan)
    /\ ScanFrame

\* NoteParser.parse consumed by the note loop: each end event yields a note;
\* broken markup raises XMLSyntaxError
ParseStep ==
    /\ scan.phase = "parse"
    /\ LET n == IterNext(scan.pos, scan.stack, ParseTag) IN
       \/ /\ n.status = "more"
          /\ scan' = [scan EXCEPT !.pos = n.pos, !.stack = n.stack,
                                  !.yielded = IF n.event THEN @ + 1 ELSE @]
       \/ /\ n.status = "end"
          /\ scan' = [scan EXCEPT !.phase = "end"]
       \/ /\ n.status = "error"
          /\ scan' = [scan EXCEPT !.phase = "end", !.raised = TRUE]
    /\ ScanFrame

NextScan ==
    \/ CountStep
    \/ ParseStep

InitScan ==
    /\ runs = 1
    /\ batch = <<[rel |-> Root, stem |-> <<"n1">>, notes |-> <<>>, malformed |-> FALSE]>>
    /\ journal = NoJournal
    /\ formats = {"html"}
    /\ retry_file = NoRetryFile
    /\ ocr_enabled = TRUE
    /\ InitLocals
    /\ doc \in Docs
    /\ scan = [NoScan EXCEPT !.phase = "count"]
    /\ writers = NoWriters

SpecScan == InitScan /\ [][NextScan]_vars

(***************************************************************************)
(* "Write Fail Log" run by two processes on the same output root           *)
(***************************************************************************)
\* what a process may have logged for its archive: one or two failures
MaxLog == 2
WriterArchives == <<[rel |-> Root, stem |-> <<"n1">>], [rel |-> Root, stem |-> <<"n2">>]>>
LogsOf(a) ==
    UNION {[1..n -> {Failure(a, t, ReasonError) : t \in {<<"a">>, <<"b", "/">>}}] :
              n \in 1..MaxLog}

\* with open(fail_log_path, 'r'): existing_failures = json.load(f)
WriterRead(w) ==
    /\ writers[w].pc = "read"
    /\ writers' = [writers EXCEPT ![w].pc = "write", ![w].existing = ReadJournal(journal)]
    /\ UNCHANGED journal

\* combined = dedupe(existing_failures + failed_notes_log); json.dump(combined, f)
WriterWrite(w) ==
    /\ writers[w].pc = "write"
    /\ journal' = [exists |-> TRUE, form |-> "list",
                   entries |-> MergeJournal(writers[w].existing, writers[w].log)]
    /\ writers' = [writers EXCEPT ![w].pc = "done"]

WriterFrame ==
    UNCHANGED <<scanVars, inputVars, ctlVars, arcVars, noteVars, resVars, fsDirs, fsPdfs,
                outVars>>

NextWriters ==
    \/ \E w \in 1..2 : WriterRead(w) /\ WriterFrame
    \/ \E w \in 1..2 : WriterWrite(w) /\ WriterFrame

InitWriters ==
    /\ runs = 1
    /\ batch = <<[rel |-> Root, stem |-> <<"n1">>, notes |-> <<>>, malformed |-> FALSE]>>
    /\ journal \in {NoJournal} \cup PriorJournals
    /\ formats = {"html"}
    /\ retry_file = NoRetryFile
    /\ ocr_enabled = TRUE
    /\ InitLocals
    /\ doc = <<>> /\ scan = NoScan
    /\ \E l1 \in LogsOf(WriterArchives[1]), l2 \in LogsOf(WriterArchives[2]) :
          writers = <<[pc |-> "read", existing |-> <<>>, log |-> l1],
                      [pc |-> "read", existing |-> <<>>, log |-> l2]>>

SpecWriters == InitWriters /\ [][NextWriters]_vars

(***************************************************************************)
(* Properties                                                              *)
(***************************************************************************)
NoDupKeys(entries) ==
    \A i, j \in 1..Len(entries) : i # j => KeyOf(entries[i]) # KeyOf(entries[j])

\* the step in which process_enex writes the journal file
JournalWritten ==
    /\ pc = "journal" /\ pc' = "finish"
    /\ failed_notes_log # <<>>
    /\ faults' = faults
    /\ Mergeable(journal)

\* nothing has been done for the current note
NoNoteWork ==
    /\ target_dir = <<>>
    /\ files = EmptyMap
    /\ ocr_tasks = <<>> /\ futures = <<>> /\ ocrCalls = {}
    /\ renderCalls = {}

AfterNotes == {"parse", "journal", "finish", "start", "done"}

\* C1: when the second invocation writes a key that the first invocation
\* has journaled, the journal afterwards has exactly one entry for that key
\* and its reason is the one the second invocation recorded.
C1_LatestReasonKept ==
    [][(JournalWritten /\ run = 2) =>
         \A i \in 1..Len(failed_notes_log) :
            LET k == KeyOf(failed_notes_log[i]) IN
            (k \in Keys(journal.entries) /\ Cardinality(EntriesOf(failed_notes_log, k)) = 1)
            => \E j \in 1..Len(journal'.entries) :
                  /\ EntriesOf(journal'.entries, k) = {j}
                  /\ journal'.entries[j].reason = failed_notes_log[i].reason]_vars

\* C2: after every journal write, whatever the journal held before and
\* whatever failures are new, no two entries share a (enex_name, title) key.
C2_NoDuplicateKeys ==
    [][JournalWritten => NoDupKeys(journal'.entries)]_vars

\* the second invocation has written a journal that the first one had written
C2_Witness ==
    /\ pc = "finish" /\ run = 2 /\ faults = 0
    /\ failed_notes_log # <<>>
    /\ journal.exists
    /\ Keys(failed_notes_log) \subseteq Keys(journal.entries)

\* C3: after two invocations on the same input and configuration, without
\* any fault, the second one converted nothing and skipped as many notes as
\* the first one converted.
C3_SecondRunSkipsAll ==
    (pc = "done" /\ runs = 2 /\ faults = 0 /\ Len(report) = 2)
    => /\ report[2].converted = 0
       /\ report[2].skipped = report[1].converted

\* C4: a resume check that finds the artifact counts the note as skipped and
\* goes back to the note loop; in that step nothing is written, submitted
\* or rendered, and nothing had been since the note started.
C4_SkipDoesNoWork ==
    /\ [](lastOutcome = "resume_skip" => pc \in AfterNotes /\ NoNoteWork)
    /\ [][(pc = "resume" /\ pc' # "resume" /\ ~sig /\ Note.title # NoTitle
           /\ ResumeHit(Note, enex_stem, fsPdfs))
          => /\ lastOutcome' = "resume_skip"
             /\ skipped' = skipped + 1 /\ count' = count /\ errors' = errors
             /\ NoNoteWork
             /\ UNCHANGED <<fsDirs, fsPdfs, journal, files, ocr_tasks, futures, ocrCalls,
                            renderCalls, target_dir>>]_vars

C4_Witness ==
    /\ lastOutcome = "resume_skip"
    /\ skipped > 0
    /\ fsPdfs # {}

\* the (enex_name, title) pairs the retry file supplies
SuppliedPairs ==
    {<<retry_file.data[i].enex_name, retry_file.data[i].title>> :
        i \in 1..Len(retry_file.data)}

\* the parser yields a note while a retry set is loaded
RetryYield == pc = "parse" /\ ni' = ni + 1 /\ retry_entries.active

NotInspected ==
    /\ skipped' = skipped + 1 /\ count' = count /\ errors' = errors
    /\ pc' = "parse"
    /\ NoNoteWork
    /\ UNCHANGED <<noteVars, resVars, diskVars, failed_notes_log>>

\* C5 as stated: in retry mode a note is passed on exactly when its
\* (enex_name, title) pair is in the supplied set; every other note is
\* counted as skipped and nothing else happens.
C5_ExactPairs ==
    [][RetryYield =>
         LET t == Archive.notes[ni + 1].title IN
         IF <<enex_stem, t>> \in SuppliedPairs THEN pc' = "resume" ELSE NotInspected]_vars

\* C5 amended: a note is passed on exactly when its (enex_name, title) pair
\* is in the supplied set or the set holds its title without an archive
\* name; every other note is counted as skipped and nothing else happens.
C5_PairsOrBareTitle ==
    [][RetryYield =>
         LET t == Archive.notes[ni + 1].title IN
         IF <<enex_stem, t>> \in SuppliedPairs \/ <<<<>>, t>> \in SuppliedPairs
         THEN pc' = "resume" /\ UNCHANGED <<count, skipped, errors>>
         ELSE NotInspected]_vars

\* a note is in the pipeline on the strength of a title without archive name
C5_Witness ==
    /\ retry_entries.active
    /\ pc = "resume"
    /\ <<enex_stem, Note.title>> \notin SuppliedPairs
    /\ skipped > 0

\* C6: a note that timed out has, once the journal is written, a journal
\* entry whose reason reports an elapsed time of at least the timeout; and
\* no alarm is pending between notes, every note starting with the full
\* timeout.
C6_TimeoutReported ==
    /\ [](pc \in AfterNotes => alarm = 0 /\ ~sig)
    /\ [][(pc = "parse" /\ pc' = "resume") => alarm' = TimeoutSec /\ elapsed' = 0]_vars
    /\ [][JournalWritten =>
            \A i \in 1..Len(failed_notes_log) :
               failed_notes_log[i].reason.kind = "timeout"
               => \E j \in 1..Len(journal'.entries) :
                     /\ KeyOf(journal'.entries[j]) = KeyOf(failed_notes_log[i])
                     /\ journal'.entries[j].reason.kind = "timeout"
                     /\ journal'.entries[j].reason.elapsed >= TimeoutSec]_vars

\* C7: a step that counts a note as failed logs an entry for that note and
\* returns to the note loop; a journal write stores every logged key; every
\* archive reports an outcome for each of its notes; every archive of every
\* invocation reports; the process is never ended by an exception or signal.
C7_FailureIsolation ==
    /\ [](pc # "killed")
    /\ [](pc = "finish" => ni = Len(Archive.notes) /\ count + skipped + errors = ni)
    /\ [](pc = "done" => Len(report) = runs * Len(batch))
    /\ [][errors' = errors + 1 =>
            /\ pc' = "parse"
            /\ Len(failed_notes_log') = Len(failed_notes_log) + 1
            /\ LET e == failed_notes_log'[Len(failed_notes_log')] IN
               /\ e.enex_name = enex_stem
               /\ e.title \in {Note.title, TitleOrUntitled(Note.title)}
               /\ e.reason.kind \in {"error", "timeout"}]_vars
    /\ [][JournalWritten => Keys(failed_notes_log) \subseteq Keys(journal'.entries)]_vars

\* both archives had a failed note, both went on to convert a later note
C7_Witness ==
    /\ pc = "done"
    /\ Len(report) = 2
    /\ \A i \in 1..2 : report[i].errors > 0 /\ report[i].converted > 0
    /\ journal.exists
    /\ batch[1].notes[1].content = Malformed

SyntheticIn(entries) == {i \in 1..Len(entries) : entries[i].title = ParseErrorTitle}

\* C8: whenever the parser is asked for the next note every note it has
\* yielded has its outcome; when it raises, the log gains one synthetic
\* entry and no outcome changes; a journal write for that archive leaves
\* exactly one synthetic entry under its key; every archive of every
\* invocation still reports.
C8_ParseFailure ==
    /\ [](pc = "parse" => count + skipped + errors = ni)
    /\ [][(pc = "parse" /\ pc' = "journal" /\ Archive.malformed) =>
            /\ Cardinality(SyntheticIn(failed_notes_log')) = 1
            /\ SubSeq(failed_notes_log', 1, Len(failed_notes_log)) = failed_notes_log
            /\ failed_notes_log'[Len(failed_notes_log')].enex_name = enex_stem
            /\ UNCHANGED <<count, skipped, errors, ni>>]_vars
    /\ [][(JournalWritten /\ Archive.malformed) =>
            Cardinality(EntriesOf(journal'.entries, <<enex_stem, ParseErrorTitle>>)) = 1]_vars
    /\ [](pc = "done" =>
            \A r \in 1..runs, a \in 1..Len(batch) :
               \E i \in 1..Len(report) : report[i].run = r /\ report[i].archive = a)

\* a malformed first archive yielded notes, and the second archive reported
C8_Witness ==
    /\ pc = "done"
    /\ Len(batch) = 2
    /\ batch[1].malformed
    /\ Len(report) = 2
    /\ report[1].yielded > 0
    /\ Cardinality(SyntheticIn(journal.entries)) = 1

Named == {i \in 1..Len(assigned) : assigned[i] # NoAssign}

\* the names claimed before resource i: those of the saved resources and
\* those whose file could not be created
ClaimedBefore(i) ==
    {assigned[j] : j \in {x \in Named : x < i}}
    \cup {resources[j].filename :
             j \in {x \in 1..(i - 1) : /\ assigned[x] = NoAssign
                                        /\ resources[x].data_b64 \in Decodable}}

\* C9: the filenames assigned in one note are pairwise distinct; a resource
\* whose name is free keeps it; otherwise it gets name_<n>.ext for the least
\* n >= 1 that is free.
C9_DistinctFilenames ==
    /\ \A i, j \in Named : i # j => assigned[i] # assigned[j]
    /\ \A i \in Named :
          LET base    == BaseFilename(resources[i], Md5(B64Decode(resources[i].data_b64)))
              earlier == ClaimedBefore(i)
              parts   == Splitext(base)
              Cand(n) == parts[1] \o <<"_">> \o Dec(n) \o parts[2]
          IN  IF base \notin earlier
              THEN assigned[i] = base
              ELSE \E n \in 1..Len(assigned) :
                      /\ assigned[i] = Cand(n)
                      /\ \A m \in 1..(n - 1) : Cand(m) \in earlier

\* "a.png" twice after "a_1.png" was taken: the second becomes "a_2.png"
C9_Witness ==
    /\ Len(assigned) = 3
    /\ \E i, j \in Named :
          /\ i < j
          /\ resources[i].filename = <<"a", ".", "png">>
          /\ resources[j].filename = <<"a", ".", "png">>
          /\ assigned[i] = <<"a", ".", "png">>
          /\ assigned[j] = <<"a", "_", "2", ".", "png">>

\* the recognition text of a value (absent when None or empty)
RecoText(r) == IF HasReco(r) THEN r ELSE None

\* not an image, or an image below the minimum dimension, or with text
Gated(res) ==
    LET data == B64Decode(res.data_b64) IN
    \/ ~IsImageMime(res.mime)
    \/ (IsRaster(data) /\ TooSmall(data))
    \/ HasReco(res.recognition)

\* C10: when resource processing has returned, no recognition call was made
\* for a gated resource and the recognition text held for it is the text it
\* came with.
C10_GatedUnchanged ==
    pc = "transform" =>
       \A i \in Named :
          Gated(resources[i])
          => /\ \A k \in ocrCalls : ocr_tasks[k].res # i
             /\ RecoText(res_map[Md5(B64Decode(resources[i].data_b64))].recognition)
                  = RecoText(resources[i].recognition)

\* the OCR tasks queued for the bytes with hash h
TasksOn(h) == {k \in 1..Len(ocr_tasks) : ocr_tasks[k].md5_hash = h}

\* recognition texts the note's resources with hash h came with
SuppliedFor(h) ==
    {RecoText(resources[i].recognition) :
        i \in {x \in Named : Md5(B64Decode(resources[x].data_b64)) = h}}

\* C11: no OCR outcome takes resource processing off its course; when it has
\* returned every task was merged, the bytes whose tasks all succeeded hold
\* the recognised text and positions, and the bytes whose tasks all failed
\* hold no recognised text.
C11_OcrFailureIsolated ==
    /\ pc \in {"resources", "ocr", "transform"}
    /\ pc = "transform" =>
         \A k \in 1..Len(futures) :
            LET t  == ocr_tasks[k]
                h  == t.md5_hash
            IN  /\ futures[k].state = "done" /\ futures[k].merged
                /\ (\A j \in TasksOn(h) : futures[j].result = "text")
                   => /\ res_map[h].recognition = OcrText(t.data)
                      /\ res_map[h].ocr_position_data = OcrPos(t.data)
                /\ (\A j \in TasksOn(h) : futures[j].result # "text")
                   => /\ RecoText(res_map[h].recognition) \in {None} \cup SuppliedFor(h)
                      /\ res_map[h].ocr_position_data = None

\* one task could not write its sidecar, one image could not be opened, and
\* a third task's text is in the map
C11_Witness ==
    /\ pc = "transform"
    /\ \E i, j, k \in 1..Len(futures) :
          /\ futures[i].result = "raise"
          /\ futures[j].result = "none" /\ ~IsRaster(ocr_tasks[j].data)
          /\ futures[k].result = "text"
          /\ ocr_tasks[k].md5_hash # ocr_tasks[i].md5_hash
          /\ res_map[ocr_tasks[k].md5_hash].recognition = OcrText(ocr_tasks[k].data)

\* the stages that read the resource map
MapReaders == {"transform", "html", "markdown", "pdf", "ret"}

\* C12: while the transformation or a renderer is due, every task that was
\* queued and kept has a future, no future is pending or running, and each
\* one was merged into the resource map.
C12_TransformAfterOcr ==
    pc \in MapReaders =>
       /\ Len(futures) = Len(ocr_tasks)
       /\ Running = {} /\ Pending = {}
       /\ \A k \in 1..Len(futures) :
             /\ futures[k].state = "done"
             /\ futures[k].merged
             /\ futures[k].result # "raise" =>
                  \E j \in TasksOn(ocr_tasks[k].md5_hash) :
                     /\ res_map[ocr_tasks[j].md5_hash].recognition
                          = ResultReco(ocr_tasks[j], futures[j].result)
                     /\ futures[j].result # "raise"

\* three tasks went through the pool and the transformation is due
C12_Witness ==
    /\ pc = "transform"
    /\ Len(futures) = 3
    /\ \E k \in 1..3 : futures[k].result = "text"
    /\ \E k \in 1..3 : futures[k].result = "none"

\* the "Finished" lines of invocation r, one per archive
LinesOf(r) == {i \in 1..Len(report) : report[i].run = r /\ report[i].archive \in 1..Len(batch)}

RECURSIVE SumOf(_, _)
SumOf(S, field) ==
    IF S = {} THEN 0
    ELSE LET i == CHOOSE x \in S : TRUE
         IN  report[i][field] + SumOf(S \ {i}, field)

\* C13: when a batch of two archives is over each invocation has logged,
\* besides one line per archive, a line for the whole batch (archive 0) whose
\* converted, skipped and failed counts are the sums of its per-archive lines.
C13_OverallReported ==
    (pc = "done" /\ Len(batch) = 2) =>
       \A r \in 1..runs :
          /\ Cardinality(LinesOf(r)) = Len(batch)
          /\ \E i \in 1..Len(report) :
                /\ report[i].run = r /\ report[i].archive = 0
                /\ report[i].converted = SumOf(LinesOf(r), "converted")
                /\ report[i].skipped = SumOf(LinesOf(r), "skipped")
                /\ report[i].errors = SumOf(LinesOf(r), "errors")

RECURSIVE Balanced(_, _)
Balanced(pos, stack) ==
    IF pos > Len(doc) THEN stack = <<>>
    ELSE LET t == doc[pos] IN
         IF IsOpen(t) THEN Balanced(pos + 1, Append(stack, t))
         ELSE /\ IsClose(t) /\ stack # <<>>
              /\ TagOf(stack[Len(stack)]) = TagOf(t)
              /\ Balanced(pos + 1, SubSeq(stack, 1, Len(stack) - 1))

\* a valid archive: every token is a tag and the tags nest
WellFormed == Balanced(1, <<>>)

NoteEnds == Cardinality({i \in 1..Len(doc) : doc[i] = "</note>"})

\* C14: once the pre-scan and then the parser have read a well-formed
\* archive, the parser has not raised and has yielded as many notes as the
\* pre-scan counted, one per note end tag.
C14_YieldEqualsCount ==
    (scan.phase = "end" /\ WellFormed) =>
       /\ ~scan.raised
       /\ scan.yielded = scan.count
       /\ scan.count = NoteEnds

\* a well-formed archive with a note inside a note
C14_Witness ==
    /\ scan.phase = "end" /\ WellFormed
    /\ scan.yielded = 2
    /\ \E i \in 1..(Len(doc) - 1) : doc[i] = "<note>" /\ doc[i + 1] = "<note>"

\* C15: a step that ends a note as failed, by an error or by the timeout,
\* logs an entry under the archive's stem and the note's title; until the
\* archive's journal write the log holds an entry for every failed note so
\* far; the write leaves the journal with every logged key and every key it
\* held before, and with no entry from elsewhere.
C15_FailedJournaled ==
    /\ [][errors' = errors + 1 =>
            /\ lastOutcome' \in {"error", "timeout"}
            /\ Len(failed_notes_log') = Len(failed_notes_log) + 1
            /\ SubSeq(failed_notes_log', 1, Len(failed_notes_log)) = failed_notes_log
            /\ KeyOf(failed_notes_log'[Len(failed_notes_log')]) = <<enex_stem, Note.title>>]_vars
    /\ [](pc \in Pipeline \cup AfterNotes \cup {"journal"}
            => Len(failed_notes_log) >= errors)
    /\ [][JournalWritten =>
            /\ journal'.exists
            /\ Keys(journal'.entries) = Keys(journal.entries) \cup Keys(failed_notes_log)
            /\ \A i \in 1..Len(journal'.entries) :
                  \/ \E j \in 1..Len(journal.entries) : journal'.entries[i] = journal.entries[j]
                  \/ \E j \in 1..Len(failed_notes_log) :
                        journal'.entries[i] = failed_notes_log[j]]_vars

\* an archive with an error and a timeout has been written into a journal
\* that held a hand-made entry
C15_Witness ==
    /\ pc = "finish"
    /\ errors = 2
    /\ \E i, j \in 1..Len(failed_notes_log) :
          /\ failed_notes_log[i].reason.kind = "timeout"
          /\ failed_notes_log[j].reason.kind = "error"
    /\ Keys(failed_notes_log) \subseteq Keys(journal.entries)
    /\ \E i \in 1..Len(journal.entries) : ~journal.entries[i].dict

\* C16: the folder an archive's resume check consults holds artifacts of
\* that archive only: in a first invocation into an empty output root, a note
\* is skipped as already converted only if an earlier note of the same
\* archive has its title.
C16_NamespaceNotShared ==
    (run = 1 /\ pc = "parse" /\ ni >= 1 /\ lastOutcome = "resume_skip") =>
       \E j \in 1..(ni - 1) : Archive.notes[j].title = Note.title

\* resources of the current note whose bytes hash to h and were saved
SavedAs(h) == {x \in Named : Md5(B64Decode(resources[x].data_b64)) = h}

\* C17: in the intermediate HTML every <en-media> whose hash is in the
\* resource map has become an element linking to note_contents/<the filename
\* assigned to a saved resource of that hash>, a file that was written: <img>
\* for an image type, <object> carrying a fallback link to the same target for
\* application/pdf, <a> otherwise; every other node is as it was.
C17_MediaReplaced ==
    pc = "html" =>
       /\ Len(intermediate_html) = Len(Note.content)
       /\ \A i \in 1..Len(Note.content) :
             LET m == Note.content[i]
                 e == intermediate_html[i]
             IN  IF m.tag = "en-media" /\ m.hash \in DOMAIN res_map
                 THEN /\ \E x \in SavedAs(m.hash) :
                            /\ e.link = <<<<"note_contents">>, assigned[x]>>
                            /\ assigned[x] \in DOMAIN files
                      /\ m.type = "image/png" => e.tag = "img"
                      /\ m.type = "application/pdf"
                         => /\ e.tag = "object"
                            /\ e.fallback_link = e.link
                            /\ e.fallback_text # None
                      /\ m.type \in {"audio/wav", ""}
                         => e.tag = "a" /\ e.fallback_link = None
                 ELSE e = m

\* an image reference and a document reference were replaced in a note
\* with two resources
C17_Witness ==
    /\ pc = "html"
    /\ \E i, j \in 1..Len(intermediate_html) :
          /\ intermediate_html[i].tag = "img"
          /\ intermediate_html[j].tag = "object"
    /\ Len(resources) = 2

\* the note is being converted: convert_note or a formatter is at work
RunningStages == (Pipeline \ {"resume"}) \cup {"ocr_unwind"}

\* C18: a yielded note goes to the resume check; the resume check either
\* skips it or hands it to the conversion; only a note under conversion is
\* counted as converted or, by an error, as failed; when the archive is
\* finished every yielded note was counted once.
C18_NoteStateMachine ==
    /\ [][(ni' = ni + 1) => (pc = "parse" /\ pc' = "resume")]_vars
    /\ [][(skipped' = skipped + 1) => (pc = "resume" /\ lastOutcome' = "resume_skip")]_vars
    /\ [][(pc' = "convert") => (pc = "resume")]_vars
    /\ [][(count' = count + 1) => (pc \in RunningStages)]_vars
    /\ [][(errors' = errors + 1 /\ lastOutcome' = "error") => (pc \in RunningStages)]_vars
    /\ [](pc = "finish" => count + skipped + errors = ni)

\* the resource files (not the sidecars) in note_contents
DataFiles == {n \in DOMAIN files : files[n].kind = "data"}

\* C19: the resource files are written in the order of the list, and all of
\* them before the first OCR task is dispatched: until a task has finished,
\* the resource files on disk are those of the saved resources among the
\* first ri - 1 of the list, each holding its resource's bytes; once OCR
\* tasks are submitted the whole list has been gone through.
C19_FilesBeforeOcr ==
    /\ Len(assigned) = ri - 1
    /\ (\A k \in 1..Len(futures) : futures[k].state # "done")
          => /\ DataFiles = {assigned[x] : x \in Named}
             /\ \A x \in Named : files[assigned[x]].val = B64Decode(resources[x].data_b64)
    /\ (futures # <<>> \/ pc \in {"ocr", "transform"})
          => /\ ri = Len(resources) + 1
             /\ \A k \in 1..Len(ocr_tasks) : ocr_tasks[k].filename \in DOMAIN files

\* three files were written and the second of two tasks is still queued
C19_Witness ==
    /\ pc = "ocr"
    /\ Cardinality(DataFiles) = 3
    /\ Len(futures) = 2
    /\ futures[1].state = "running" /\ futures[2].state = "pending"

C21_NoLostUpdate ==
    (\A w \in 1..Len(writers) : writers[w].pc = "done") =>
       \A w \in 1..Len(writers) : Keys(writers[w].log) \subseteq Keys(journal.entries)

\* C22: when the only note of an archive is skipped by the resume check of
\* the second invocation, the first invocation had not counted it as failed.
C22_AbortedNotTrusted ==
    (run = 2 /\ pc = "parse" /\ ni = 1 /\ Len(Archive.notes) = 1
       /\ lastOutcome = "resume_skip")
    => (report[1].errors = 0 /\ report[1].converted = 1)

\* C23: the journal step, whether it writes or fails, goes on to the
\* "Finished" line and leaves the archive's counts alone; the line reports
\* those counts; every archive of the batch is processed and reported.
C23_JournalFailureContained ==
    /\ [](pc # "killed")
    /\ [][pc = "journal" =>
            /\ pc' = "finish"
            /\ UNCHANGED <<count, skipped, errors, ni, ai, run, failed_notes_log>>]_vars
    /\ [][pc = "finish" =>
            /\ Len(report') = Len(report) + 1
            /\ LET l == report'[Len(report')] IN
               /\ l.archive = ai
               /\ l.converted = count /\ l.skipped = skipped /\ l.errors = errors]_vars
    /\ [](pc = "done" =>
            /\ Len(report) = Len(batch)
            /\ \A a \in 1..Len(batch) :
                  /\ report[a].archive = a
                  /\ ~batch[a].malformed => report[a].yielded = Len(batch[a].notes))

\* both archives had failures to journal, the file held a JSON object and
\* still does, and the second archive converted a note
C23_Witness ==
    /\ pc = "done"
    /\ journal.form = "object"
    /\ report[1].errors > 0 /\ report[2].errors > 0
    /\ report[2].converted > 0

\* resources the first pass has gone through
Handled == 1..(ri - 1)

\* C24: resource processing never leaves its course; a handled resource
\* without payload, with a payload that does not decode, or whose file could
\* not be created has no filename, no file and no task, and the map holds
\* the hashes of the saved resources only; every other handled resource is
\* saved under a name of its own; when the pass is over every resource was
\* handled.
C24_BadResourceDropped ==
    /\ pc \in {"resources", "ocr", "transform"}
    /\ errors = 0
    /\ Len(assigned) = ri - 1
    /\ DOMAIN res_map = {Md5(B64Decode(resources[x].data_b64)) : x \in Named}
    /\ \A k \in 1..Len(ocr_tasks) : ocr_tasks[k].res \in Named
    /\ \A x \in Handled :
          LET res == resources[x] IN
          IF res.data_b64 \notin Decodable
          THEN assigned[x] = NoAssign
          ELSE IF res.filename \in {<<".">>, <<".", ".">>}
                  /\ \A y \in 1..(x - 1) : resources[y].filename # res.filename
          THEN /\ assigned[x] = NoAssign
               /\ res.filename \notin DOMAIN files
          ELSE /\ x \in Named
               /\ assigned[x] \in DOMAIN files
    /\ pc \in {"ocr", "transform"} => ri = Len(resources) + 1

\* a resource whose file cannot be created was passed over and the image
\* after it was saved and recognised
C24_Witness ==
    /\ pc = "transform"
    /\ Len(resources) = 2
    /\ resources[1].filename = <<".", ".">>
    /\ assigned[1] = NoAssign
    /\ 2 \in Named /\ assigned[2] \in DOMAIN files
    /\ \E k \in 1..Len(futures) : futures[k].result = "text"

\* C25: ResumeCheck skips a note only when that very note was converted
\* before.  The output root is empty when the first invocation starts, so no
\* note of the first invocation has been converted before, and none of them
\* may be skipped on the strength of a file another note left behind.
C25_SkipOnlyOwnArtifact == run = 1 => lastOutcome # "resume_skip"

\* the directories an invocation into an empty output root gives the first
\* k notes of the archive when each of them is converted
RECURSIVE FirstRunDirs(_)
FirstRunDirs(k) ==
    IF k = 0 THEN {}
    ELSE FirstRunDirs(k - 1) \cup {TargetDir(Archive, Archive.notes[k], FirstRunDirs(k - 1))}
FirstRunDir(j) == TargetDir(Archive, Archive.notes[j], FirstRunDirs(j - 1))

\* C26: two different converted notes of one archive never share an output
\* directory, reruns included: when the first invocation converted every
\* note, a note that the second invocation has rendered and is about to
\* count as converted was not written into the directory that holds another
\* note of the first invocation.
C26_DirectoriesDistinct ==
    (run = 2 /\ pc = "ret" /\ "html" \in renderCalls
             /\ report[1].converted = Len(Archive.notes))
        => \A j \in 1..Len(Archive.notes) : j # ni => target_dir # FirstRunDir(j)

\* C27: a note without a title is handled as "Untitled" in every stage, and
\* the missing title alone never makes it Failed: when such a note with
\* well-formed content has ended with an error, a fault of the environment
\* was met on the way.
C27_UntitledNotFailed ==
    (pc = "parse" /\ ni >= 1 /\ lastOutcome = "error"
                  /\ Note.title = NoTitle /\ ~Raises(Note.content))
        => faults > 0

\* C28: when the resource processing of a note is over, the file of every
\* saved resource holds the decoded bytes of that resource: no recognition
\* or position file and no other resource has been written over it.
C28_ResourceFilesIntact ==
    pc = "transform"
        => \A x \in Named :
              /\ assigned[x] \in DOMAIN files
              /\ files[assigned[x]] = [kind |-> "data", val |-> B64Decode(resources[x].data_b64)]

\* the tasks on the bytes with hash h whose result the merge loop stores
Stored(h) == {k \in TasksOn(h) : futures[k].merged /\ futures[k].result # "raise"}
LastOf(S) == CHOOSE k \in S : \A m \in S : m <= k

\* C29: the resource map returned does not depend on the order in which the
\* OCR tasks complete.  Completion in submission order is one of the orders,
\* so for every hash the map holds what merging in that order leaves there:
\* the result of the last submitted task on that hash that returned one.
C29_MergeOrderIndependent ==
    pc = "transform"
        => \A h \in DOMAIN res_map :
              Stored(h) # {}
              => LET k == LastOf(Stored(h)) IN
                 /\ res_map[h].recognition = ResultReco(ocr_tasks[k], futures[k].result)
                 /\ res_map[h].ocr_position_data = ResultPos(ocr_tasks[k], futures[k].result)

\* C30: a journal write never removes a key, and the journal file changes
\* only when the archive at hand has produced failures: every step keeps the
\* keys of the journal, and a step that changes the file is the journal
\* write of an archive whose failed_notes_log is not empty.
C30_JournalKeysKept ==
    [][/\ Keys(journal.entries) \subseteq Keys(journal'.entries)
       /\ journal' # journal => pc = "journal" /\ failed_notes_log # <<>>]_vars

\* the journal of an earlier invocation was merged with a failure of this
\* one: entries of both are in the file
C30_Witness ==
    /\ pc = "finish"
    /\ journal.exists
    /\ \E i, j \in 1..Len(journal.entries) :
          /\ journal.entries[i].enex_file = <<>>
          /\ journal.entries[j].enex_file # <<>>
          /\ KeyOf(journal.entries[i]) # KeyOf(journal.entries[j])

====
